---- MODULE Spec2Model ----
(***************************************************************************)
(* A model of the varu64 codec of src/src/lib.rs: encoding_length, encode, *)
(* write_bytes, encode_write and decode.                                   *)
(*                                                                         *)
(* A u64 is written as its eight base-256 digits, most significant first   *)
(* (<<0,0,0,0,0,0,1,0>> is 256): the values of the format reach 2^64 - 1,  *)
(* beyond the integers TLC computes with. A usize and a u8 are integers.   *)
(* A slice is a sequence of bytes; Rust index i is TLA+ position i + 1.    *)
(***************************************************************************)
EXTENDS Integers, Sequences, FiniteSets, TLC

VARIABLES
    pc,      \* the last call made: "start" before any
    n,       \* the u64 handed to encoding_length, encode or encode_write
    out,     \* the caller's output buffer of encode
    len,     \* what encoding_length returned
    ret,     \* what encode or encode_write returned
    input,   \* the slice handed to decode
    dec,     \* what decode returned
    w,       \* the bytes the sink of encode_write holds
    cap,     \* how many more bytes the sink accepts before it fails
    werr,    \* the error the sink fails with
    vals,    \* the values still to be written to the stream
    sent,    \* the values written to the stream so far
    recv     \* the values decoded from the stream so far

vars == <<pc, n, out, len, ret, input, dec, w, cap, werr, vals, sent, recv>>

----------------------------------------------------------------------------
(* Bounds of the model. *)

\* Longest output buffer handed to encode; sink capacities go as far.
MaxBuf == 10
\* Free leading digits of a sampled u64 value.
MaxSig == 2
\* Free payload bytes of a sampled decode input.
MaxBody == 2
\* Frames written back to back to one stream.
MaxFrames == 3

----------------------------------------------------------------------------
(* u64 and u8 arithmetic. *)

\* Bytes of a u64: [u8; 8].
U64Bytes == 8

Min(a, b) == IF a < b THEN a ELSE b

Seqs(S, lo, hi) == UNION { [1..k -> S] : k \in lo..hi }

Reverse(s) == [i \in 1..Len(s) |-> s[Len(s) + 1 - i]]

\* The u64 whose low digits are s (Len(s) <= 8): `x as u64` of a narrower value.
Pad8(s) ==
    [i \in 1..U64Bytes |->
        IF i <= U64Bytes - Len(s) THEN 0 ELSE s[i - (U64Bytes - Len(s))]]

RECURSIVE Digits(_, _)
Digits(x, k) == IF k = 0 THEN <<>> ELSE Append(Digits(x \div 256, k - 1), x % 256)

\* A literal below 2^31 as a u64.
U64(x) == Pad8(Digits(x, 4))

\* a < b on u64: the first differing digit decides.
RECURSIVE LtFrom(_, _, _)
LtFrom(a, b, i) ==
    IF i > U64Bytes THEN FALSE
    ELSE IF a[i] # b[i] THEN a[i] < b[i]
    ELSE LtFrom(a, b, i + 1)

Lt(a, b) == LtFrom(a, b, 1)

\* `n as u8`: the low byte.
AsU8(a) == a[U64Bytes]

\* `out <<= 8` on a u64: the top byte is shifted out, no overflow check applies.
Shl8(a) == Tail(a) \o <<0>>

\* a + b on u64 for a byte b, digit by digit with carry; overflow is reported.
RECURSIVE AddFrom(_, _, _)
AddFrom(a, carry, i) ==
    IF i = 0 THEN [val |-> a, overflow |-> carry > 0]
    ELSE AddFrom([a EXCEPT ![i] = (a[i] + carry) % 256], (a[i] + carry) \div 256, i - 1)

AddU8(a, b) == AddFrom(a, b, U64Bytes)

RECURSIVE BitOr(_, _, _)
BitOr(a, b, bits) ==
    IF bits = 0 THEN 0
    ELSE (IF a % 2 = 1 \/ b % 2 = 1 THEN 1 ELSE 0) + 2 * BitOr(a \div 2, b \div 2, bits - 1)

RECURSIVE BitAnd(_, _, _)
BitAnd(a, b, bits) ==
    IF bits = 0 THEN 0
    ELSE (IF a % 2 = 1 /\ b % 2 = 1 THEN 1 ELSE 0) + 2 * BitAnd(a \div 2, b \div 2, bits - 1)

----------------------------------------------------------------------------
(* The thresholds of encoding_length and encode. *)

T248 == U64(248)
T256 == U64(256)
T65536 == U64(65536)
T16777216 == U64(16777216)
T4294967296 == <<0, 0, 0, 1, 0, 0, 0, 0>>
T1099511627776 == <<0, 0, 1, 0, 0, 0, 0, 0>>
T281474976710656 == <<0, 1, 0, 0, 0, 0, 0, 0>>
T72057594037927936 == <<1, 0, 0, 0, 0, 0, 0, 0>>

----------------------------------------------------------------------------
(* encoding_length *)

encoding_length_off_by_one(x) ==
    IF Lt(x, T248) THEN 1
    ELSE IF Lt(x, T256) THEN 2
    ELSE IF Lt(x, U64(65535)) THEN 3
    ELSE IF Lt(x, T16777216) THEN 4
    ELSE IF Lt(x, T4294967296) THEN 5
    ELSE IF Lt(x, T1099511627776) THEN 6
    ELSE IF Lt(x, T281474976710656) THEN 7
    ELSE IF Lt(x, T72057594037927936) THEN 8
    ELSE 9

encoding_length(x) ==
    IF Lt(x, T248) THEN 1
    ELSE IF Lt(x, T256) THEN 2
    ELSE IF Lt(x, T65536) THEN 3
    ELSE IF Lt(x, T16777216) THEN 4
    ELSE IF Lt(x, T4294967296) THEN 5
    ELSE IF Lt(x, T1099511627776) THEN 6
    ELSE IF Lt(x, T281474976710656) THEN 7
    ELSE IF Lt(x, T72057594037927936) THEN 8
    ELSE 9

----------------------------------------------------------------------------
(* encode and write_bytes *)

\* The byte orders of the targets the crate builds for.
Targets == {"little", "big"}

to_be_missing(x, target) == x

\* u64::to_be: the value whose memory on the target is x in big-endian order.
to_be(x, target) == IF target = "little" THEN Reverse(x) ELSE x

\* std::mem::transmute to [u8; 8]: the bytes of x in the target's memory order.
transmute(x, target) == IF target = "little" THEN Reverse(x) ELSE x

\* `o[i] = b` with Rust's bounds check (i counts from 0).
store(o, i, b) ==
    IF i >= Len(o) THEN [panic |-> TRUE, out |-> o]
    ELSE [panic |-> FALSE, out |-> [o EXCEPT ![i + 1] = b]]

\* A write_bytes that copies the first k bytes instead of the last k.
RECURSIVE write_loop_head(_, _, _, _)
write_loop_head(bytes, k, o, i) ==
    IF i >= k THEN [panic |-> FALSE, out |-> o]
    ELSE IF i >= U64Bytes THEN [panic |-> TRUE, out |-> o]
    ELSE LET st == store(o, i, bytes[i + 1])
         IN  IF st.panic THEN st ELSE write_loop_head(bytes, k, st.out, i + 1)

\* A write_bytes that stops at the end of a short buffer instead of panicking.
RECURSIVE write_loop_clamped(_, _, _, _)
write_loop_clamped(bytes, k, o, i) ==
    IF i >= Min(k, Len(o)) THEN [panic |-> FALSE, out |-> o]
    ELSE IF (U64Bytes - k) + i >= U64Bytes THEN [panic |-> TRUE, out |-> o]
    ELSE LET st == store(o, i, bytes[(U64Bytes - k) + i + 1])
         IN  IF st.panic THEN st ELSE write_loop_clamped(bytes, k, st.out, i + 1)

\* for i in 0..k { out[i] = bytes[(8 - k) + i]; }
RECURSIVE write_loop(_, _, _, _)
write_loop(bytes, k, o, i) ==
    IF i >= k THEN [panic |-> FALSE, out |-> o]
    ELSE IF (U64Bytes - k) + i >= U64Bytes THEN [panic |-> TRUE, out |-> o]
    ELSE LET st == store(o, i, bytes[(U64Bytes - k) + i + 1])
         IN  IF st.panic THEN st ELSE write_loop(bytes, k, st.out, i + 1)

write_bytes(x, k, o, target) ==
    write_loop(transmute(to_be(x, target), target), k, o, 0)

\* One multi-byte arm of encode: out[0] = tag; write_bytes(n, k, &mut out[1..]); k + 1.
encode_arm(x, tag, k, o, target) ==
    LET st == store(o, 0, tag)
    IN  IF st.panic THEN [panic |-> TRUE, out |-> st.out, ret |-> 0]
        ELSE LET wb == write_bytes(x, k, Tail(st.out), target)
             IN  [panic |-> wb.panic,
                  out |-> <<st.out[1]>> \o wb.out,
                  ret |-> IF wb.panic THEN 0 ELSE k + 1]

encode(x, o, target) ==
    IF Lt(x, T248) THEN
        LET st == store(o, 0, AsU8(x))
        IN  [panic |-> st.panic, out |-> st.out, ret |-> IF st.panic THEN 0 ELSE 1]
    ELSE IF Lt(x, T256) THEN encode_arm(x, 248, 1, o, target)
    ELSE IF Lt(x, T65536) THEN encode_arm(x, 249, 2, o, target)
    ELSE IF Lt(x, T16777216) THEN encode_arm(x, 250, 3, o, target)
    ELSE IF Lt(x, T4294967296) THEN encode_arm(x, 251, 4, o, target)
    ELSE IF Lt(x, T1099511627776) THEN encode_arm(x, 252, 5, o, target)
    ELSE IF Lt(x, T281474976710656) THEN encode_arm(x, 253, 6, o, target)
    ELSE IF Lt(x, T72057594037927936) THEN encode_arm(x, 254, 7, o, target)
    ELSE encode_arm(x, 255, 8, o, target)

----------------------------------------------------------------------------
(* encode_write *)

\* The scratch buffer of encode_write: [0u8; 9].
TmpLen == 9

Zeros(k) == [i \in 1..k |-> 0]

\* io::Write::write_all on a sink that holds `held` and accepts `room` more bytes:
\* all of buf is taken, or the sink fails with `err` after the bytes it had room for.
write_all(held, room, err, buf) ==
    IF Len(buf) <= room
    THEN [ok |-> TRUE, w |-> held \o buf, cap |-> room - Len(buf), err |-> ""]
    ELSE [ok |-> FALSE, w |-> held \o SubSeq(buf, 1, room), cap |-> 0, err |-> err]

\* An encode_write that hands the sink the whole scratch buffer.
encode_write_whole_tmp(x, held, room, err, target) ==
    LET e == encode(x, Zeros(TmpLen), target)
        r == write_all(held, room, err, e.out)
    IN  IF e.panic THEN [tag |-> "panic", val |-> 0, err |-> "", w |-> held, cap |-> room]
        ELSE IF r.ok THEN [tag |-> "Ok", val |-> e.ret, err |-> "", w |-> r.w, cap |-> r.cap]
        ELSE [tag |-> "Err", val |-> 0, err |-> r.err, w |-> r.w, cap |-> r.cap]

encode_write(x, held, room, err, target) ==
    LET e == encode(x, Zeros(TmpLen), target)
        r == write_all(held, room, err, SubSeq(e.out, 1, e.ret))
    IN  IF e.panic THEN [tag |-> "panic", val |-> 0, err |-> "", w |-> held, cap |-> room]
        ELSE IF r.ok THEN [tag |-> "Ok", val |-> e.ret, err |-> "", w |-> r.w, cap |-> r.cap]
        ELSE [tag |-> "Err", val |-> 0, err |-> r.err, w |-> r.w, cap |-> r.cap]

----------------------------------------------------------------------------
(* decode *)

\* What decode returns. Ok((value, rest)), Err((NonCanonical(value), rest)) and
\* Err((UnexpectedEndOfInput, rest)); "panic" is a fault inside decode.
Ok(v, r) == [tag |-> "Ok", value |-> v, rest |-> r]
NonCanonical(v, r) == [tag |-> "NonCanonical", value |-> v, rest |-> r]
UnexpectedEndOfInput(r) == [tag |-> "UnexpectedEndOfInput", value |-> <<>>, rest |-> r]
Panic == [tag |-> "panic", value |-> <<>>, rest |-> <<>>]
NoDecode == [tag |-> "none", value |-> <<>>, rest |-> <<>>]

\* &s[i..] with Rust's bounds check (i counts from 0).
slice_from(s, i) ==
    IF i > Len(s) THEN [panic |-> TRUE, s |-> <<>>]
    ELSE [panic |-> FALSE, s |-> SubSeq(s, i + 1, Len(s))]

\* (first | 0b0000_0111) == 0b1111_1111
is_multi_byte(first) == BitOr(first, 7, 8) = 255

header_length_short(first) == BitAnd(first, 7, 8) + 1

\* (first & 0b0000_0111) as usize + 2
header_length(first) == BitAnd(first, 7, 8) + 2

\* A loop that, short of input, already judges the bytes it has.
RECURSIVE decode_loop_eager(_, _, _, _)
decode_loop_eager(s, i, length, acc) ==
    IF i >= length THEN [done |-> FALSE, acc |-> acc, res |-> NoDecode]
    ELSE IF i < Len(s) THEN
        LET sum == AddU8(Shl8(acc), s[i + 1])
        IN  IF sum.overflow THEN [done |-> TRUE, acc |-> acc, res |-> Panic]
            ELSE decode_loop_eager(s, i + 1, length, sum.val)
    ELSE LET r == slice_from(s, i)
         IN  [done |-> TRUE, acc |-> acc,
              res |-> IF r.panic THEN Panic
                      ELSE IF length > encoding_length(acc) THEN NonCanonical(acc, r.s)
                      ELSE UnexpectedEndOfInput(r.s)]

\* A loop that, short of input, skips the declared frame: &input[length..].
RECURSIVE decode_loop_skip(_, _, _, _)
decode_loop_skip(s, i, length, acc) ==
    IF i >= length THEN [done |-> FALSE, acc |-> acc, res |-> NoDecode]
    ELSE IF i < Len(s) THEN
        LET sum == AddU8(Shl8(acc), s[i + 1])
        IN  IF sum.overflow THEN [done |-> TRUE, acc |-> acc, res |-> Panic]
            ELSE decode_loop_skip(s, i + 1, length, sum.val)
    ELSE LET r == slice_from(s, length)
         IN  [done |-> TRUE, acc |-> acc,
              res |-> IF r.panic THEN Panic ELSE UnexpectedEndOfInput(r.s)]

\* for i in 1..length { out <<= 8; match input.get(i) { Some(b) => out += b,
\*                                                      None => return Err(..) } }
RECURSIVE decode_loop(_, _, _, _)
decode_loop(s, i, length, acc) ==
    IF i >= length THEN [done |-> FALSE, acc |-> acc, res |-> NoDecode]
    ELSE IF i < Len(s) THEN
        LET sum == AddU8(Shl8(acc), s[i + 1])
        IN  IF sum.overflow THEN [done |-> TRUE, acc |-> acc, res |-> Panic]
            ELSE decode_loop(s, i + 1, length, sum.val)
    ELSE LET r == slice_from(s, i)
         IN  [done |-> TRUE, acc |-> acc,
              res |-> IF r.panic THEN Panic ELSE UnexpectedEndOfInput(r.s)]

\* A canonicity check that flags the frame and leaves the remainder unadvanced.
decode_finish_unadvanced(s, length, acc) ==
    LET r == slice_from(s, length)
    IN  IF r.panic THEN Panic
        ELSE IF length > encoding_length(acc) THEN NonCanonical(acc, s)
        ELSE Ok(acc, r.s)

\* A decode without the canonicity check.
decode_finish_lenient(s, length, acc) ==
    LET r == slice_from(s, length)
    IN  IF r.panic THEN Panic ELSE Ok(acc, r.s)

\* if length > encoding_length(out) { Err((NonCanonical(out), &input[length..])) }
\* else { Ok((out, &input[length..])) }
decode_finish(s, length, acc) ==
    LET r == slice_from(s, length)
    IN  IF r.panic THEN Panic
        ELSE IF length > encoding_length(acc) THEN NonCanonical(acc, r.s)
        ELSE Ok(acc, r.s)

decode(s) ==
    IF Len(s) = 0 THEN UnexpectedEndOfInput(s)
    ELSE LET first == s[1]
         IN  IF is_multi_byte(first) THEN
                 LET length == header_length(first)
                     l == decode_loop(s, 1, length, U64(0))
                 IN  IF l.done THEN l.res ELSE decode_finish(s, length, l.acc)
             ELSE LET r == slice_from(s, 1)
                  IN  IF r.panic THEN Panic ELSE Ok(Pad8(<<first>>), r.s)

----------------------------------------------------------------------------
(* The inputs the calls are made with. *)

ByteSamples == {0, 1, 247, 248, 255}

\* j bytes start + step, start + 2 * step, ...: all zero, all 255, or 1, 2, 3, ...
Fill(f, j) == [i \in 1..j |-> (f[1] + f[2] * i) % 256]
FillKinds == {<<0, 0>>, <<255, 0>>, <<0, 1>>}

Take(s, k) == SubSeq(s, 1, Min(Len(s), k))

\* Sampled u64 values: up to MaxSig free leading digits over a run of low digits.
\* Every threshold of encoding_length, its predecessor and 2^64 - 1 are among them.
Values ==
    { Pad8(Take(s \o Fill(f, j), U64Bytes)) :
        s \in Seqs(ByteSamples, 0, MaxSig), f \in FillKinds, j \in 0..U64Bytes }

\* The caller's buffers: any length up to MaxBuf, holding earlier content.
Buffers == { [i \in 1..b |-> 170] : b \in 0..MaxBuf }

\* First bytes of a decode input: three single-byte values and every length tag.
Headers == {0, 42, 247} \cup (248..255)
BodySamples == {0, 42, 248, 255}

\* Sampled decode inputs: a header, leading zero bytes, free bytes, a run 1, 2, 3, ...
\* Frames cut short, complete, over-long and followed by further bytes are among them.
Inputs ==
    {<<>>} \cup
    { <<h>> \o Zeros(z) \o s \o Fill(<<0, 1>>, j) :
        h \in Headers, z \in 0..U64Bytes,
        s \in Seqs(BodySamples, 0, MaxBody), j \in 0..U64Bytes }

SinkErrors == {"WriteZero", "BrokenPipe"}

\* The values written back to back to a stream.
StreamValues ==
    { U64(0), U64(247), U64(248), U64(255), U64(256), U64(65535), U64(65536),
      <<0, 0, 0, 1, 2, 3, 4, 5>>, T72057594037927936,
      <<255, 255, 255, 255, 255, 255, 255, 255>> }

NoRet == [tag |-> "none", val |-> 0, err |-> ""]

----------------------------------------------------------------------------
(* Spec: a value is sized, encoded into the caller's buffer, and the bytes  *)
(* written are decoded again (tests::test_fixture).                         *)

Init ==
    /\ pc = "start"
    /\ n \in Values
    /\ out \in Buffers
    /\ len = 0
    /\ ret = NoRet
    /\ input = <<>>
    /\ dec = NoDecode
    /\ w = <<>>
    /\ cap = 0
    /\ werr = ""
    /\ vals = <<>>
    /\ sent = <<>>
    /\ recv = <<>>

EncodingLength ==
    /\ pc = "start"
    /\ len' = encoding_length(n)
    /\ pc' = "encoding_length"
    /\ UNCHANGED <<n, out, ret, input, dec, w, cap, werr, vals, sent, recv>>

Encode ==
    /\ pc \in {"start", "encoding_length"}
    /\ \E target \in Targets :
        LET e == encode(n, out, target)
        IN  /\ out' = e.out
            /\ ret' = [tag |-> IF e.panic THEN "panic" ELSE "usize", val |-> e.ret, err |-> ""]
    /\ pc' = "encode"
    /\ UNCHANGED <<n, len, input, dec, w, cap, werr, vals, sent, recv>>

\* decode(&foo[..enc_len])
DecodeEncoded ==
    /\ pc = "encode"
    /\ ret.tag = "usize"
    /\ input' = SubSeq(out, 1, ret.val)
    /\ dec' = decode(input')
    /\ pc' = "decode"
    /\ UNCHANGED <<n, out, len, ret, w, cap, werr, vals, sent, recv>>

Next == EncodingLength \/ Encode \/ DecodeEncoded

Spec == Init /\ [][Next]_vars

----------------------------------------------------------------------------
(* SpecDecode: decode is called on an arbitrary slice. *)

InitDecode ==
    /\ pc = "start"
    /\ n = U64(0)
    /\ out = <<>>
    /\ len = 0
    /\ ret = NoRet
    /\ input \in Inputs
    /\ dec = NoDecode
    /\ w = <<>>
    /\ cap = 0
    /\ werr = ""
    /\ vals = <<>>
    /\ sent = <<>>
    /\ recv = <<>>

Decode ==
    /\ pc = "start"
    /\ dec' = decode(input)
    /\ pc' = "decode"
    /\ UNCHANGED <<n, out, len, ret, input, w, cap, werr, vals, sent, recv>>

NextDecode == Decode

SpecDecode == InitDecode /\ [][NextDecode]_vars

----------------------------------------------------------------------------
(* SpecWrite: encode_write is called with a sink that accepts cap bytes and *)
(* then fails with werr.                                                    *)

InitWrite ==
    /\ pc = "start"
    /\ n \in Values
    /\ out = <<>>
    /\ len = 0
    /\ ret = NoRet
    /\ input = <<>>
    /\ dec = NoDecode
    /\ w = <<>>
    /\ cap \in 0..MaxBuf
    /\ werr \in SinkErrors
    /\ vals = <<>>
    /\ sent = <<>>
    /\ recv = <<>>

EncodeWrite ==
    /\ pc = "start"
    /\ \E target \in Targets :
        LET r == encode_write(n, w, cap, werr, target)
        IN  /\ w' = r.w
            /\ cap' = r.cap
            /\ ret' = [tag |-> r.tag, val |-> r.val, err |-> r.err]
    /\ pc' = "encode_write"
    /\ UNCHANGED <<n, out, len, input, dec, werr, vals, sent, recv>>

NextWrite == EncodeWrite

SpecWrite == InitWrite /\ [][NextWrite]_vars

----------------------------------------------------------------------------
(* SpecStream: up to MaxFrames values are written back to back to a sink    *)
(* that takes them all, and the bytes are decoded frame by frame, each call *)
(* on the remainder the call before returned.                               *)

InitStream ==
    /\ pc = "start"
    /\ n = U64(0)
    /\ out = <<>>
    /\ len = 0
    /\ ret = NoRet
    /\ input = <<>>
    /\ dec = NoDecode
    /\ w = <<>>
    /\ cap = TmpLen * MaxFrames
    /\ werr = "WriteZero"
    /\ vals \in Seqs(StreamValues, 1, MaxFrames)
    /\ sent = <<>>
    /\ recv = <<>>

StreamWrite ==
    /\ pc \in {"start", "stream_write"}
    /\ vals # <<>>
    /\ n' = Head(vals)
    /\ vals' = Tail(vals)
    /\ \E target \in Targets :
        LET r == encode_write(n', w, cap, werr, target)
        IN  /\ w' = r.w
            /\ cap' = r.cap
            /\ ret' = [tag |-> r.tag, val |-> r.val, err |-> r.err]
    /\ sent' = Append(sent, n')
    /\ pc' = "stream_write"
    /\ UNCHANGED <<out, len, input, dec, werr, recv>>

StreamDecode ==
    /\ \/ pc = "stream_write" /\ vals = <<>> /\ input' = w
       \/ pc = "stream_decode" /\ dec.tag \in {"Ok", "NonCanonical"} /\ dec.rest # <<>>
            /\ input' = dec.rest
    /\ dec' = decode(input')
    /\ recv' = IF dec'.tag = "Ok" THEN Append(recv, dec'.value) ELSE recv
    /\ pc' = "stream_decode"
    /\ UNCHANGED <<n, out, len, ret, w, cap, werr, vals, sent>>

NextStream == StreamWrite \/ StreamDecode

SpecStream == InitStream /\ [][NextStream]_vars

----------------------------------------------------------------------------
(* The format as the specification states it, independent of the code.      *)

\* How many of the eight digits of v remain once the leading zeros are dropped.
SigBytes(v) ==
    LET nz == { i \in 1..U64Bytes : v[i] # 0 }
    IN  IF nz = {} THEN 0
        ELSE U64Bytes + 1 - (CHOOSE i \in nz : \A j \in nz : i <= j)

\* The table of section 4.1: 1 below 248, else one header byte and the value's bytes.
TableLength(v) ==
    IF SigBytes(v) = 0 \/ (SigBytes(v) = 1 /\ v[U64Bytes] < 248) THEN 1
    ELSE 1 + SigBytes(v)

\* The frame of section 6: the value itself, or the header 246 + L and the L - 1
\* least significant bytes, most significant first.
CanonicalFrame(v) ==
    LET L == TableLength(v)
    IN  IF L = 1 THEN <<v[U64Bytes]>>
        ELSE <<246 + L>> \o SubSeq(v, U64Bytes - (L - 1) + 1, U64Bytes)

RECURSIVE ConcatFrames(_)
ConcatFrames(vs) ==
    IF vs = <<>> THEN <<>> ELSE CanonicalFrame(Head(vs)) \o ConcatFrames(Tail(vs))

IsSuffix(r, s) ==
    /\ Len(r) <= Len(s)
    /\ r = SubSeq(s, Len(s) - Len(r) + 1, Len(s))

\* The values at and next to the thresholds of the table.
Boundaries ==
    { U64(0), U64(247), T248, U64(255), T256, U64(65535), T65536,
      U64(16777215), T16777216, T4294967296, T1099511627776, T281474976710656,
      <<0, 255, 255, 255, 255, 255, 255, 255>>, T72057594037927936,
      <<255, 255, 255, 255, 255, 255, 255, 255>> }

MaxU64 == <<255, 255, 255, 255, 255, 255, 255, 255>>

----------------------------------------------------------------------------
(* The claims. *)

\* C1: round trip. Decoding exactly the bytes encode wrote for v returns Ok with
\* the value v and an empty remainder.
C1_RoundTrip ==
    pc = "decode" => dec = Ok(n, <<>>)

C1_Witness ==
    /\ pc = "decode"
    /\ n = T72057594037927936
    /\ input = <<255, 1, 0, 0, 0, 0, 0, 0, 0>>
    /\ dec.tag = "Ok"

C3_LengthTable ==
    pc = "encoding_length" =>
        /\ len \in 1..9
        /\ len = TableLength(n)
        /\ n = U64(247) => len = 1
        /\ n = U64(248) => len = 2
        /\ n = U64(255) => len = 2
        /\ n = U64(256) => len = 3
        /\ n = U64(65535) => len = 3
        /\ n = U64(65536) => len = 4
        /\ n = <<0, 255, 255, 255, 255, 255, 255, 255>> => len = 8
        /\ n = T72057594037927936 => len = 9
        /\ n = MaxU64 => len = 9
        /\ \A m \in Boundaries :
            /\ Lt(m, n) => encoding_length(m) <= len
            /\ Lt(n, m) => len <= encoding_length(m)

C3_Witness ==
    /\ pc = "encoding_length"
    /\ n = U64(65535)
    /\ len = 3

\* C4: truncation priority. On the empty input, and on an input whose first byte h
\* is a length tag and that is shorter than h - 246, decode returns
\* UnexpectedEndOfInput with an empty remainder, whatever bytes are present.
C4_TruncationPriority ==
    (/\ pc = "decode"
     /\ \/ input = <<>>
        \/ input[1] \in 248..255 /\ Len(input) < input[1] - 246) =>
        dec = UnexpectedEndOfInput(<<>>)

C4_Witness ==
    /\ pc = "decode"
    /\ input = <<250, 0, 0>>
    /\ dec.tag = "UnexpectedEndOfInput"

\* C5: non-canonical detection. On an input that holds the whole frame its tag h
\* declares (length = h - 246) and whose payload value acc needs fewer bytes,
\* decode returns NonCanonical(acc) and the remainder input[length..].
C5_NonCanonical ==
    (/\ pc = "decode"
     /\ input # <<>>
     /\ input[1] \in 248..255
     /\ Len(input) >= input[1] - 246
     /\ input[1] - 246 > TableLength(Pad8(SubSeq(input, 2, input[1] - 246)))) =>
        dec = NonCanonical(Pad8(SubSeq(input, 2, input[1] - 246)),
                           SubSeq(input, input[1] - 246 + 1, Len(input)))

C5_Witness ==
    /\ pc = "decode"
    /\ input = <<249, 0, 42, 1, 2>>
    /\ dec.tag = "NonCanonical"
    /\ dec.rest = <<1, 2>>

\* C6: unique accepted encoding. Whenever decode returns Ok((v, rest)), the bytes
\* consumed are encoding_length(v) many and are the bytes encode writes for v.
C6_UniqueEncoding ==
    (pc = "decode" /\ dec.tag = "Ok") =>
        LET consumed == SubSeq(input, 1, Len(input) - Len(dec.rest))
        IN  /\ Len(consumed) = encoding_length(dec.value)
            /\ \A target \in Targets :
                LET e == encode(dec.value, Zeros(TmpLen), target)
                IN  ~e.panic /\ SubSeq(e.out, 1, e.ret) = consumed

C6_Witness ==
    /\ pc = "decode"
    /\ input = <<250, 255, 1, 2, 3>>
    /\ dec = Ok(<<0, 0, 0, 0, 0, 255, 1, 2>>, <<3>>)

\* C7: sequential decoding. Decoding the concatenation of canonical frames call by
\* call returns the values in the order written; each call consumes exactly the
\* frame of the value it returns and leaves the frames of the later values.
C7_Sequential ==
    pc = "stream_decode" =>
        /\ dec.tag = "Ok"
        /\ Len(recv) <= Len(sent)
        /\ recv = SubSeq(sent, 1, Len(recv))
        /\ dec.value = sent[Len(recv)]
        /\ dec.rest = ConcatFrames(SubSeq(sent, Len(recv) + 1, Len(sent)))
        /\ Len(input) - Len(dec.rest) = encoding_length(dec.value)

C7_Witness ==
    /\ pc = "stream_decode"
    /\ sent = <<U64(65536), U64(247), MaxU64>>
    /\ recv = sent
    /\ dec.rest = <<>>

\* C8: undersized buffer. With a buffer shorter than the table's length for v,
\* encode panics, returns no byte count, and the buffer keeps its length.
C8_UndersizedPanics ==
    [][(pc' = "encode" /\ pc # "encode" /\ Len(out) < TableLength(n)) =>
          /\ ret' = [tag |-> "panic", val |-> 0, err |-> ""]
          /\ Len(out') = Len(out)]_vars

C8_Witness ==
    /\ pc = "encode"
    /\ n = T72057594037927936
    /\ Len(out) = 8
    /\ ret.tag = "panic"

\* C9: sink writer. encode_write hands the sink the frame of v and nothing else;
\* it returns Ok(encoding_length(v)) when the sink takes the frame, and the sink's
\* own error, with no count, when the sink fails.
C9_SinkWriter ==
    [][pc' = "encode_write" =>
          IF cap >= TableLength(n)
          THEN /\ ret' = [tag |-> "Ok", val |-> TableLength(n), err |-> ""]
               /\ w' = w \o CanonicalFrame(n)
          ELSE /\ ret' = [tag |-> "Err", val |-> 0, err |-> werr]
               /\ w' = w \o Take(CanonicalFrame(n), cap)]_vars

C9_Witness ==
    /\ pc = "encode_write"
    /\ n = U64(256)
    /\ ret = [tag |-> "Ok", val |-> 3, err |-> ""]
    /\ w = <<249, 1, 0>>

\* C10: decode totality. On every input decode returns Ok, NonCanonical or
\* UnexpectedEndOfInput, without a fault; the remainder is a suffix of the input;
\* on Ok and NonCanonical the bytes consumed follow from the first byte alone.
C10_DecodeTotal ==
    pc = "decode" =>
        /\ dec.tag \in {"Ok", "NonCanonical", "UnexpectedEndOfInput"}
        /\ IsSuffix(dec.rest, input)
        /\ dec.tag \in {"Ok", "NonCanonical"} =>
            Len(input) - Len(dec.rest) =
                IF input[1] < 248 THEN 1 ELSE input[1] - 246

C10_Witness ==
    /\ pc = "decode"
    /\ input = <<255, 255, 255, 1, 2, 3, 4, 5, 6, 7, 8>>
    /\ dec = Ok(<<255, 255, 1, 2, 3, 4, 5, 6>>, <<7, 8>>)

====
